---- MODULE Spec2Model ----
(***************************************************************************)
(* Model of src/main.rs: the RangeBounds trait with its two provided       *)
(* methods, contains and overlaps, over a value type with PartialOrd.      *)
(* Values are integers plus one NaN-like value that is incomparable with   *)
(* everything (every comparison with it is false), as f32 is in Rust.      *)
(***************************************************************************)
EXTENDS Integers, FiniteSets, Sequences, TLC

\* Largest integer endpoint / item drawn as an input.
MaxVal == 6

(***************************************************************************)
(* Values and their partial order (PartialOrd::lt / PartialOrd::le).       *)
(***************************************************************************)
Num(n) == [nan |-> FALSE, n |-> n]
NaN == [nan |-> TRUE, n |-> 0]

Values == {Num(n) : n \in 0..MaxVal} \cup {NaN}

lt(a, b) == ~a.nan /\ ~b.nan /\ a.n < b.n
le(a, b) == ~a.nan /\ ~b.nan /\ a.n <= b.n

(***************************************************************************)
(* std::ops::Bound and the ranges built from a pair of bounds.             *)
(***************************************************************************)
Included(v) == [kind |-> "Included", v |-> v]
Excluded(v) == [kind |-> "Excluded", v |-> v]
Unbounded == [kind |-> "Unbounded", v |-> Num(0)]

Bound == {Included(v) : v \in Values} \cup {Excluded(v) : v \in Values} \cup {Unbounded}

\* impl RangeBounds<T> for (Bound<T>, Bound<T>)
BoundPair(s, e) == [start |-> s, end |-> e]
start_bound(r) == r.start
end_bound(r) == r.end

\* impl RangeBounds<T> for RangeFull / Range<T>
RangeFull == BoundPair(Unbounded, Unbounded)
Range(a, b) == BoundPair(Included(Num(a)), Excluded(Num(b)))

Ranges == {BoundPair(s, e) : s \in Bound, e \in Bound}

(***************************************************************************)
(* RangeBounds::contains                                                   *)
(***************************************************************************)
contains_negated(self, item) ==
    (CASE start_bound(self).kind = "Included" -> ~lt(item, start_bound(self).v)
       [] start_bound(self).kind = "Excluded" -> ~le(item, start_bound(self).v)
       [] start_bound(self).kind = "Unbounded" -> TRUE)
    /\ (CASE end_bound(self).kind = "Included" -> ~lt(end_bound(self).v, item)
          [] end_bound(self).kind = "Excluded" -> ~le(end_bound(self).v, item)
          [] end_bound(self).kind = "Unbounded" -> TRUE)

contains_closed_end(self, item) ==
    (CASE start_bound(self).kind = "Included" -> le(start_bound(self).v, item)
       [] start_bound(self).kind = "Excluded" -> lt(start_bound(self).v, item)
       [] start_bound(self).kind = "Unbounded" -> TRUE)
    /\ (CASE end_bound(self).kind = "Included" -> le(item, end_bound(self).v)
          [] end_bound(self).kind = "Excluded" -> le(item, end_bound(self).v)
          [] end_bound(self).kind = "Unbounded" -> TRUE)

contains(self, item) ==
    (CASE start_bound(self).kind = "Included" -> le(start_bound(self).v, item)
       [] start_bound(self).kind = "Excluded" -> lt(start_bound(self).v, item)
       [] start_bound(self).kind = "Unbounded" -> TRUE)
    /\ (CASE end_bound(self).kind = "Included" -> le(item, end_bound(self).v)
          [] end_bound(self).kind = "Excluded" -> lt(item, end_bound(self).v)
          [] end_bound(self).kind = "Unbounded" -> TRUE)

(***************************************************************************)
(* RangeBounds::overlaps.  The outcome of a call is either a returned      *)
(* boolean or the panic raised by todo!().                                 *)
(***************************************************************************)
Ret(b) == [panicked |-> FALSE, value |-> b]
Todo == [panicked |-> TRUE, value |-> FALSE]

\* The match arms whose body is todo!(), as (self start, self end,
\* other start, other end) kinds, in source order.
TodoArms ==
    { <<"Included", "Excluded", "Excluded", "Included">>,
      <<"Included", "Excluded", "Excluded", "Excluded">>,
      <<"Included", "Excluded", "Excluded", "Unbounded">>,
      <<"Included", "Excluded", "Unbounded", "Included">>,
      <<"Included", "Excluded", "Unbounded", "Excluded">>,
      <<"Included", "Unbounded", "Excluded", "Included">>,
      <<"Included", "Unbounded", "Excluded", "Excluded">>,
      <<"Included", "Unbounded", "Unbounded", "Included">>,
      <<"Included", "Unbounded", "Unbounded", "Excluded">>,
      <<"Excluded", "Included", "Included", "Excluded">>,
      <<"Excluded", "Included", "Included", "Unbounded">>,
      <<"Excluded", "Included", "Excluded", "Excluded">>,
      <<"Excluded", "Included", "Excluded", "Unbounded">>,
      <<"Excluded", "Included", "Unbounded", "Excluded">>,
      <<"Excluded", "Excluded", "Included", "Excluded">>,
      <<"Excluded", "Excluded", "Included", "Unbounded">>,
      <<"Excluded", "Excluded", "Excluded", "Included">>,
      <<"Excluded", "Excluded", "Excluded", "Excluded">>,
      <<"Excluded", "Excluded", "Excluded", "Unbounded">>,
      <<"Excluded", "Excluded", "Unbounded", "Included">>,
      <<"Excluded", "Excluded", "Unbounded", "Excluded">>,
      <<"Excluded", "Unbounded", "Included", "Excluded">>,
      <<"Excluded", "Unbounded", "Excluded", "Included">>,
      <<"Excluded", "Unbounded", "Excluded", "Excluded">>,
      <<"Excluded", "Unbounded", "Unbounded", "Included">>,
      <<"Excluded", "Unbounded", "Unbounded", "Excluded">>,
      <<"Unbounded", "Included", "Included", "Excluded">>,
      <<"Unbounded", "Included", "Included", "Unbounded">>,
      <<"Unbounded", "Included", "Excluded", "Excluded">>,
      <<"Unbounded", "Included", "Excluded", "Unbounded">>,
      <<"Unbounded", "Excluded", "Included", "Excluded">>,
      <<"Unbounded", "Excluded", "Included", "Unbounded">>,
      <<"Unbounded", "Excluded", "Excluded", "Included">>,
      <<"Unbounded", "Excluded", "Excluded", "Excluded">>,
      <<"Unbounded", "Excluded", "Excluded", "Unbounded">> }

\* The tuple the match scrutinises.
Kinds(self, other) ==
    << start_bound(self).kind, end_bound(self).kind,
       start_bound(other).kind, end_bound(other).kind >>

overlaps_no_other_full(self, other) ==
    LET ss == start_bound(self)
        se == end_bound(self)
        os == start_bound(other)
        oe == end_bound(other)
    IN  IF ss.kind = "Unbounded" /\ se.kind = "Unbounded" THEN Ret(TRUE)
        ELSE IF ss.kind = "Unbounded" /\ os.kind = "Unbounded" THEN Ret(TRUE)
        ELSE IF se.kind = "Unbounded" /\ oe.kind = "Unbounded" THEN Ret(TRUE)
        ELSE IF ss.kind = "Included" /\ se.kind = "Included"
            THEN Ret(contains(other, ss.v) \/ contains(other, se.v))
        ELSE IF os.kind = "Included" /\ oe.kind = "Included"
            THEN Ret(contains(self, os.v) \/ contains(self, oe.v))
        ELSE IF ss.kind = "Included" /\ os.kind = "Included"
            THEN Ret(contains(self, os.v) \/ contains(other, ss.v))
        ELSE IF se.kind = "Included" /\ oe.kind = "Included"
            THEN Ret(contains(self, oe.v) \/ contains(other, se.v))
        ELSE Todo

overlaps_starts_and(self, other) ==
    LET ss == start_bound(self)
        se == end_bound(self)
        os == start_bound(other)
        oe == end_bound(other)
    IN  IF ss.kind = "Unbounded" /\ se.kind = "Unbounded" THEN Ret(TRUE)
        ELSE IF os.kind = "Unbounded" /\ oe.kind = "Unbounded" THEN Ret(TRUE)
        ELSE IF ss.kind = "Unbounded" /\ os.kind = "Unbounded" THEN Ret(TRUE)
        ELSE IF se.kind = "Unbounded" /\ oe.kind = "Unbounded" THEN Ret(TRUE)
        ELSE IF ss.kind = "Included" /\ se.kind = "Included"
            THEN Ret(contains(other, ss.v) \/ contains(other, se.v))
        ELSE IF os.kind = "Included" /\ oe.kind = "Included"
            THEN Ret(contains(self, os.v) \/ contains(self, oe.v))
        ELSE IF ss.kind = "Included" /\ os.kind = "Included"
            THEN Ret(contains(self, os.v) /\ contains(other, ss.v))
        ELSE IF se.kind = "Included" /\ oe.kind = "Included"
            THEN Ret(contains(self, oe.v) \/ contains(other, se.v))
        ELSE Todo

overlaps_starts_self_only(self, other) ==
    LET ss == start_bound(self)
        se == end_bound(self)
        os == start_bound(other)
        oe == end_bound(other)
    IN  IF ss.kind = "Unbounded" /\ se.kind = "Unbounded" THEN Ret(TRUE)
        ELSE IF os.kind = "Unbounded" /\ oe.kind = "Unbounded" THEN Ret(TRUE)
        ELSE IF ss.kind = "Unbounded" /\ os.kind = "Unbounded" THEN Ret(TRUE)
        ELSE IF se.kind = "Unbounded" /\ oe.kind = "Unbounded" THEN Ret(TRUE)
        ELSE IF ss.kind = "Included" /\ se.kind = "Included"
            THEN Ret(contains(other, ss.v) \/ contains(other, se.v))
        ELSE IF os.kind = "Included" /\ oe.kind = "Included"
            THEN Ret(contains(self, os.v) \/ contains(self, oe.v))
        ELSE IF ss.kind = "Included" /\ os.kind = "Included"
            THEN Ret(contains(self, os.v))
        ELSE IF se.kind = "Included" /\ oe.kind = "Included"
            THEN Ret(contains(self, oe.v) \/ contains(other, se.v))
        ELSE Todo

\* The match of lines 88-137: the first arm whose pattern fits decides.
overlaps(self, other) ==
    LET ss == start_bound(self)
        se == end_bound(self)
        os == start_bound(other)
        oe == end_bound(other)
    IN  IF ss.kind = "Unbounded" /\ se.kind = "Unbounded" THEN Ret(TRUE)
        ELSE IF os.kind = "Unbounded" /\ oe.kind = "Unbounded" THEN Ret(TRUE)
        ELSE IF ss.kind = "Unbounded" /\ os.kind = "Unbounded" THEN Ret(TRUE)
        ELSE IF se.kind = "Unbounded" /\ oe.kind = "Unbounded" THEN Ret(TRUE)
        ELSE IF ss.kind = "Included" /\ se.kind = "Included"
            THEN Ret(contains(other, ss.v) \/ contains(other, se.v))
        ELSE IF os.kind = "Included" /\ oe.kind = "Included"
            THEN Ret(contains(self, os.v) \/ contains(self, oe.v))
        ELSE IF ss.kind = "Included" /\ os.kind = "Included"
            THEN Ret(contains(self, os.v) \/ contains(other, ss.v))
        ELSE IF se.kind = "Included" /\ oe.kind = "Included"
            THEN Ret(contains(self, oe.v) \/ contains(other, se.v))
        ELSE CASE Kinds(self, other) \in TodoArms -> Todo

(***************************************************************************)
(* State: the arguments of one call and its outcome.                       *)
(***************************************************************************)
VARIABLES self, other, item, pc, ret, cret

vars == <<self, other, item, pc, ret, cret>>

\* A caller evaluates self.overlaps(&other) on any two ranges.
Init ==
    /\ self \in Ranges
    /\ other \in Ranges
    /\ item = Num(0)
    /\ pc = "start"
    /\ ret = Ret(FALSE)
    /\ cret = FALSE

Overlaps ==
    /\ pc = "start"
    /\ ret' = overlaps(self, other)
    /\ pc' = IF overlaps(self, other).panicked THEN "panicked" ELSE "done"
    /\ UNCHANGED <<self, other, item, cret>>

Next == Overlaps

Spec == Init /\ [][Next]_vars

\* A caller evaluates self.contains(&item) on any range and any item.
InitContains ==
    /\ self \in Ranges
    /\ other = RangeFull
    /\ item = Num(0)
    /\ pc = "start"
    /\ ret = Ret(FALSE)
    /\ cret = FALSE

Contains ==
    /\ pc = "start"
    /\ \E it \in Values :
        /\ item' = it
        /\ cret' = contains(self, it)
    /\ pc' = "done"
    /\ UNCHANGED <<self, other, ret>>

NextContains == Contains

SpecContains == InitContains /\ [][NextContains]_vars

(***************************************************************************)
(* Vocabulary of the properties.                                           *)
(***************************************************************************)
\* The endpoints of r are comparable with every value (no NaN-like endpoint).
TotalOrder(r) ==
    /\ start_bound(r).kind # "Unbounded" => ~start_bound(r).v.nan
    /\ end_bound(r).kind # "Unbounded" => ~end_bound(r).v.nan

\* Endpoints lie in 0..MaxVal, so every integer below 0 is accepted by the
\* same ranges as -1 and every integer above MaxVal by the same as MaxVal+1.
Points == {Num(n) : n \in (0 - 1)..(MaxVal + 1)}

NonEmpty(r) == \E x \in Points : contains(r, x)
SharePoint(a, b) == \E x \in Points : contains(a, x) /\ contains(b, x)

StartAccepts(b, x) ==
    \/ b.kind = "Unbounded"
    \/ b.kind = "Included" /\ le(b.v, x)
    \/ b.kind = "Excluded" /\ lt(b.v, x)

EndAccepts(b, x) ==
    \/ b.kind = "Unbounded"
    \/ b.kind = "Included" /\ le(x, b.v)
    \/ b.kind = "Excluded" /\ lt(x, b.v)

\* a ends at the value where b starts, and at least one of them excludes it.
Touching(a, b) ==
    /\ TotalOrder(a) /\ TotalOrder(b)
    /\ end_bound(a).kind # "Unbounded"
    /\ start_bound(b).kind # "Unbounded"
    /\ end_bound(a).v = start_bound(b).v
    /\ "Excluded" \in {end_bound(a).kind, start_bound(b).kind}
    /\ start_bound(a).kind = "Unbounded" \/ lt(start_bound(a).v, end_bound(a).v)
    /\ end_bound(b).kind = "Unbounded" \/ lt(start_bound(b).v, end_bound(b).v)

\* a contains an Included endpoint of b.
ContainsIncludedEndpoint(a, b) ==
    \E e \in {start_bound(b), end_bound(b)} :
        e.kind = "Included" /\ contains(a, e.v)

NaNInvolved(r, x) ==
    \/ start_bound(r).kind # "Unbounded" /\ start_bound(r).v.nan
    \/ end_bound(r).kind # "Unbounded" /\ end_bound(r).v.nan
    \/ x.nan /\ (start_bound(r).kind # "Unbounded" \/ end_bound(r).kind # "Unbounded")

\* r is a non-empty a..b over integers.
HalfOpenNonEmpty(r) ==
    /\ TotalOrder(r)
    /\ start_bound(r).kind = "Included"
    /\ end_bound(r).kind = "Excluded"
    /\ lt(start_bound(r).v, end_bound(r).v)

Max(a, b) == IF a >= b THEN a ELSE b
Min(a, b) == IF a <= b THEN a ELSE b

(***************************************************************************)
(* Properties.                                                             *)
(***************************************************************************)

\* C1: overlaps is total: for every combination of bound kinds and every
\* endpoint values the call returns a boolean and never ends in todo!().
C1_OverlapsTotal == pc # "panicked"

\* C2: overlaps is symmetric: over a total order, self.overlaps(other) and
\* other.overlaps(self) have the same outcome.
C2_Symmetric ==
    (pc # "start" /\ TotalOrder(self) /\ TotalOrder(other))
        => ret = overlaps(other, self)

\* C3: for two integer ranges that each contain a value, overlaps returns
\* true if and only if some value is contained in both.
C3_OverlapsIffSharedPoint ==
    (pc # "start" /\ TotalOrder(self) /\ TotalOrder(other)
        /\ NonEmpty(self) /\ NonEmpty(other))
        => ret = Ret(SharePoint(self, other))

\* C4: contains returns true exactly when the start side accepts the item
\* and the end side accepts the item, for every range and every item.
C4_ContainsIsAndOfSides ==
    pc = "done"
        => cret = (StartAccepts(start_bound(self), item)
                     /\ EndAccepts(end_bound(self), item))

C4_Witness ==
    /\ pc = "done"
    /\ start_bound(self).kind = "Excluded"
    /\ end_bound(self).kind = "Included"
    /\ item = end_bound(self).v
    /\ cret = TRUE

\* C5: ranges that only touch at a point excluded by at least one of them
\* do not overlap, in either call order.
C5_TouchingExcludedNoOverlap ==
    (pc # "start" /\ (Touching(self, other) \/ Touching(other, self)))
        => ret = Ret(FALSE)

\* C6: if either argument is unbounded on both sides, overlaps returns true
\* whatever the other range is, in both call orders.
C6_UnboundedAbsorption ==
    (pc # "start" /\ (self = RangeFull \/ other = RangeFull))
        => ret = Ret(TRUE)

C6_Witness ==
    /\ pc = "done"
    /\ other = RangeFull
    /\ self = BoundPair(Excluded(Num(5)), Excluded(Num(2)))
    /\ ret = Ret(TRUE)

\* C7: whenever contains compares with a NaN-like value (a NaN endpoint, or
\* a NaN item against a range with a bounded side), it returns false.
C7_ContainsNaNFalse ==
    (pc = "done" /\ NaNInvolved(self, item)) => cret = FALSE

C7_Witness ==
    /\ pc = "done"
    /\ item = NaN
    /\ self = BoundPair(Unbounded, Included(Num(3)))
    /\ cret = FALSE

C9_EndpointContainmentImpliesOverlap ==
    (pc # "start" /\ TotalOrder(self) /\ TotalOrder(other)
        /\ (ContainsIncludedEndpoint(self, other)
              \/ ContainsIncludedEndpoint(other, self)))
        => ret = Ret(TRUE)

====
